---- MODULE Spec2Model ----
(***************************************************************************)
(* Model of the CoffeeBlack integration layer of stagehand:                *)
(*   - lib/utils/retry (exponentialBackoff),                               *)
(*   - lib/llm/CoffeeBlackClient (constructor, validateResponse, reason),  *)
(*   - lib/llm/CoffeeBlackResponseParser (parseResponse, executeAction).   *)
(*                                                                         *)
(* Spec runs two clients side by side that were constructed from the same  *)
(* options except for the debug flag, and that meet the same sequence of   *)
(* network outcomes: client TRUE has debug enabled, client FALSE has not.  *)
(* SpecParser runs one parser (either class, debug off or on) on one       *)
(* response, with the page operations of the debug overlay as steps.       *)
(* Strings the code matches on (error messages, response bodies) are       *)
(* sequences of tokens; String.includes is contiguous-subsequence search.  *)
(***************************************************************************)
EXTENDS Integers, Sequences, FiniteSets, TLC

VARIABLES
    opts,       \* the options object handed to both constructors
    net,        \* network outcome met by the i-th attempt (drawn when first needed)
    pc,         \* per client: position inside reason / exponentialBackoff
    attempt,    \* per client: exponentialBackoff's loop variable
    delay,      \* per client: exponentialBackoff's delay
    lastError,  \* per client: exponentialBackoff's lastError
    timers,     \* per client: attempts whose abort timer is armed (setTimeout, not cleared)
    elapsed,    \* per client: ms since the current attempt's request was issued
    waits,      \* per client: the delays slept so far, in order (history)
    hist,       \* per client: what each finished attempt did (history)
    result,     \* per client: what reason returned or threw
    parser,     \* the parser in use: its variant and its debug flag
    ppc,        \* position inside parseResponse / saveDebugWithBoundingBoxes
    presp,      \* the response handed to parseResponse
    page,       \* the page session: its URL and the operations issued on it
    parsed,     \* what parseResponse returned or threw
    calls,      \* per executeAction call: its argument, its position, its outcome
    device      \* the device operations issued on the page and how each ended (history)

cvars == <<opts, net, pc, attempt, delay, lastError, timers, elapsed, waits, hist, result>>
pvars == <<parser, ppc, presp, page, parsed>>
evars == <<calls, device>>
vars == <<cvars, pvars, evars>>

\* ---------------------------------------------------------------- bounds

\* Largest maxRetries option value tried (besides the option being absent).
MaxRetriesArg == 2

\* Largest number of boxes in a response handed to the parser.
MaxBoxes == 2

\* ---------------------------------------------------------------- constants

DefaultMaxRetries == 3
DefaultInitialRetryDelayMs == 1000
DefaultMaxRetryDelayMs == 10000
DefaultTimeoutMs == 30000

\* ---------------------------------------------------------------- strings

DigitStr == <<"0", "1", "2", "3", "4", "5", "6", "7", "8", "9">>

\* Template-literal interpolation of a non-negative integer: its decimal digits.
RECURSIVE Digits(_)
Digits(n) ==
    IF n < 10 THEN <<DigitStr[n + 1]>>
    ELSE Digits(n \div 10) \o <<DigitStr[(n % 10) + 1]>>

\* String.prototype.includes on token sequences.
Includes(msg, pat) ==
    \E i \in 1..(Len(msg) - Len(pat) + 1) : SubSeq(msg, i, i + Len(pat) - 1) = pat

TimedOutPat == <<"timed out">>
Api5xxPat == <<"CoffeeBlack API error (", "5">>

\* ---------------------------------------------------------------- errors

NoError == [name |-> "none", message |-> <<>>]
MkError(name, message) == [name |-> name, message |-> message]

InstanceOfTypeError(e) == e.name = "TypeError"
InstanceOfError(e) == e.name \in {"Error", "TypeError", "SyntaxError"}

\* What fs.mkdirSync / fs.writeFileSync throw when the debug area cannot be written.
FsError == MkError("Error", <<"ENOSPC: no space left on device, write">>)
\* What response.json() throws on a body that is not JSON.
JsonSyntaxError == MkError("SyntaxError", <<"Unexpected token < in JSON at position 0">>)
\* What an aborted fetch / body read rejects with.
AbortError == MkError("AbortError", <<"This operation was aborted">>)

\* ---------------------------------------------------------------- options

\* An optional numeric option: absent (undefined) or present with a value.
Absent == [present |-> FALSE, v |-> 0]
Given(x) == [present |-> TRUE, v |-> x]

MaxRetriesArgs == {Absent} \cup {Given(x) : x \in 0..MaxRetriesArg}
InitialDelayArgs == {Absent, Given(2), Given(5)}
MaxDelayArgs == {Absent, Given(3)}
TimeoutArgs == {Absent, Given(2)}

\* The options tried: every combination of retry count and delays under the
\* default timeout, and every retry count under a short timeout with the
\* default delays (the timeout and the delays act on different parts of the
\* call: the attempt and the sleep between attempts).
Options ==
    {o \in [maxRetries : MaxRetriesArgs, initialRetryDelayMs : InitialDelayArgs,
            maxRetryDelayMs : MaxDelayArgs, timeoutMs : TimeoutArgs] :
        o.timeoutMs.present =>
            ~o.initialRetryDelayMs.present /\ ~o.maxRetryDelayMs.present}

\* `option || dflt`: the default replaces an absent option and every falsy value.
OrDefault(o, dflt) == IF o.present /\ o.v # 0 THEN o.v ELSE dflt

\* CoffeeBlackClient.constructor: the fields of the client built from options o
\* with debug flag d.
Constructor(o, d) ==
    [maxRetries          |-> OrDefault(o.maxRetries, DefaultMaxRetries),
     initialRetryDelayMs |-> OrDefault(o.initialRetryDelayMs, DefaultInitialRetryDelayMs),
     maxRetryDelayMs     |-> OrDefault(o.maxRetryDelayMs, DefaultMaxRetryDelayMs),
     timeoutMs           |-> OrDefault(o.timeoutMs, DefaultTimeoutMs),
     debug               |-> d]

Clients == BOOLEAN
This(d) == Constructor(opts, d)

\* ---------------------------------------------------------------- response bodies

\* A JSON value is known by the run-time type of the value and of its fields:
\* "string", "number", "array", "object", "null", or "undefined" (field absent).
TypeOf(tag) == IF tag \in {"object", "array", "null"} THEN "object" ELSE tag
IsArray(tag) == tag = "array"
\* Of the values tried, only null and undefined are falsy for certain; the
\* others that could be falsy (0, "") are rejected by the typeof tests anyway.
Falsy(tag) == tag \in {"null", "undefined"}

JsonObjects ==
    [top : {"object"},
     query : {"string", "undefined"},
     boxes : {"array", "object"},
     chosen_action : {"object", "null"},
     chosen_element_index : {"number", "undefined"},
     explanation : {"string", "number"}]

JsonNonObject(tag) ==
    [top |-> tag, query |-> "undefined", boxes |-> "undefined",
     chosen_action |-> "undefined", chosen_element_index |-> "undefined",
     explanation |-> "undefined"]

JsonValues == JsonObjects \cup {JsonNonObject("null"), JsonNonObject("number")}
NoJson == JsonNonObject("undefined")
ValidJson ==
    [top |-> "object", query |-> "string", boxes |-> "array",
     chosen_action |-> "object", chosen_element_index |-> "number",
     explanation |-> "string"]

\* "Invalid response: missing or invalid <field><rest>".
InvalidMsg(field, rest) ==
    <<"Invalid response: ", "missing or invalid ", field>> \o rest
NotAnObjectMsg == <<"Invalid response: ", "expected an object">>

\* CoffeeBlackClient.validateResponse: NoError when it returns, else the error
\* it throws.
validateResponse(data) ==
    IF Falsy(data.top) \/ TypeOf(data.top) # "object"
    THEN MkError("Error", NotAnObjectMsg)
    ELSE IF TypeOf(data.query) # "string"
    THEN MkError("Error", InvalidMsg("query", <<>>))
    ELSE IF ~IsArray(data.boxes)
    THEN MkError("Error", InvalidMsg("boxes", <<" array">>))
    ELSE IF Falsy(data.chosen_action) \/ TypeOf(data.chosen_action) # "object"
    THEN MkError("Error", InvalidMsg("chosen_action", <<>>))
    ELSE IF TypeOf(data.chosen_element_index) # "number"
    THEN MkError("Error", InvalidMsg("chosen_element_index", <<>>))
    ELSE IF TypeOf(data.explanation) # "string"
    THEN MkError("Error", InvalidMsg("explanation", <<>>))
    ELSE NoError

\* ---------------------------------------------------------------- network

OkStatuses == {200}
ResponseOk(status) == status >= 200 /\ status <= 299

\* Error statuses with their body texts.
ErrorResponses ==
    {<<400, <<"bad request">>>>, <<400, <<"upstream ", "timed out">>>>,
     <<404, <<"not found">>>>, <<500, <<"internal error">>>>}
RejectMessages == {<<"fetch failed">>}

NetOutcome(kind, message, status, text, isJson, json, hdrLat, bodyLat) ==
    [kind |-> kind, message |-> message, status |-> status, text |-> text,
     isJson |-> isJson, json |-> json, hdrLat |-> hdrLat, bodyLat |-> bodyLat]

\* hdrLat: ms from issuing the request to the response headers (or to the
\* rejection); bodyLat: ms from the headers to the end of the body.
Lat == [fastHdr |-> 1, slowHdr |-> 4, slowBody |-> 2]

\* What fetch can meet. Fast answers: a rejection below HTTP, an
\* error status with a body text, a success status with a body that is JSON or
\* not. Slow answers: a valid response whose headers, or whose body, come late.
NetOutcomes ==
    {NetOutcome("reject", m, 0, <<>>, FALSE, NoJson, Lat.fastHdr, 0) : m \in RejectMessages}
    \cup {NetOutcome("response", <<>>, r[1], r[2], FALSE, NoJson, Lat.fastHdr, 0) :
            r \in ErrorResponses}
    \cup {NetOutcome("response", <<>>, s, <<>>, TRUE, j, Lat.fastHdr, 0) :
            s \in OkStatuses, j \in JsonValues}
    \cup {NetOutcome("response", <<>>, s, <<>>, FALSE, NoJson, Lat.fastHdr, 0) :
            s \in OkStatuses}
    \cup {NetOutcome("response", <<>>, s, <<>>, TRUE, ValidJson, Lat.slowHdr, 0) :
            s \in OkStatuses}
    \cup {NetOutcome("response", <<>>, s, <<>>, TRUE, ValidJson, Lat.fastHdr, Lat.slowBody) :
            s \in OkStatuses}

\* ---------------------------------------------------------------- reason: one attempt

\* The error thrown on a non-success status (line 174).
ApiError(status, text) ==
    MkError("Error", <<"CoffeeBlack API error (">> \o Digits(status) \o <<"): ">> \o text)

\* The error the catch block builds for an aborted request (line 197).
TimeoutError(timeoutMs) ==
    MkError("Error", <<"Request ", "timed out", " after ">> \o Digits(timeoutMs) \o <<"ms">>)

\* A catch block that lets the abort error through as it is.
Rethrow_KeepsAbortError(this, error) ==
    IF InstanceOfTypeError(error)
    THEN MkError("Error", <<"Network error: ">> \o error.message)
    ELSE error

\* The catch block of the attempt (lines 192-203): what it throws for `error`.
Rethrow(this, error) ==
    IF error.name = "AbortError" THEN TimeoutError(this.timeoutMs)
    ELSE IF InstanceOfTypeError(error)
    THEN MkError("Error", <<"Network error: ">> \o error.message)
    ELSE error

\* A predicate that retries every failure but a 4xx status.
shouldRetry_AllButClientErrors(error) ==
    ~Includes(error.message, <<"CoffeeBlack API error (", "4">>)

\* The shouldRetry predicate reason hands to exponentialBackoff (lines 209-216).
shouldRetry(error) ==
    \/ InstanceOfTypeError(error)
    \/ Includes(error.message, TimedOutPat)
    \/ (InstanceOfError(error) /\ Includes(error.message, Api5xxPat))

\* What the part of the attempt after the body has arrived (lines 163-188)
\* throws, NoError when it returns the data. writeOk: whether the debug write
\* of this part succeeds (read only when debug is enabled).
AfterBody(this, o, writeOk) ==
    IF ~ResponseOk(o.status)
    THEN IF this.debug /\ ~writeOk THEN FsError ELSE ApiError(o.status, o.text)
    ELSE IF ~o.isJson THEN JsonSyntaxError
    ELSE IF this.debug /\ ~writeOk THEN FsError
    ELSE validateResponse(o.json)

\* Whether validateResponse was reached in that part and threw.
Malformed(this, o, writeOk) ==
    /\ ResponseOk(o.status) /\ o.isJson
    /\ ~(this.debug /\ ~writeOk)
    /\ validateResponse(o.json) # NoError

\* clearTimeout(timeoutId) in the finally block (line 190).
ClearTimeout(armed, id) == armed \ {id}

\* ---------------------------------------------------------------- exponentialBackoff

Min(a, b) == IF a <= b THEN a ELSE b

\* A give-up test that is one attempt early.
GivesUp_OneEarly(maxRetries, att, error) ==
    att + 1 >= maxRetries \/ ~shouldRetry(error)

\* The test of lines 59-62: rethrow instead of sleeping and retrying.
GivesUp(maxRetries, att, error) == att = maxRetries \/ ~shouldRetry(error)

\* Line 67.
NextDelay(d, maxDelayMs) == Min(d * 2, maxDelayMs)

HistEntry(event, status, threw, malformed) ==
    [event |-> event, status |-> status, threw |-> threw, malformed |-> malformed]

NoResult == [kind |-> "none", error |-> NoError, data |-> NoJson]

\* The attempt of client d threw `error` (already passed through the attempt's
\* catch block): exponentialBackoff's catch block, lines 56-66.
OnThrow(d, error, entry) ==
    /\ lastError' = [lastError EXCEPT ![d] = error]
    /\ hist' = [hist EXCEPT ![d] = Append(@, entry)]
    /\ IF GivesUp(This(d).maxRetries, attempt[d], error)
       THEN /\ pc' = [pc EXCEPT ![d] = "threw"]
            /\ result' = [result EXCEPT ![d] = [kind |-> "throw", error |-> error, data |-> NoJson]]
            /\ waits' = waits
       ELSE /\ pc' = [pc EXCEPT ![d] = "sleeping"]
            /\ waits' = [waits EXCEPT ![d] = Append(@, delay[d])]
            /\ result' = result

\* The attempt of client d returned `data`: line 55 returns it.
OnReturn(d, data, entry) ==
    /\ hist' = [hist EXCEPT ![d] = Append(@, entry)]
    /\ pc' = [pc EXCEPT ![d] = "returned"]
    /\ result' = [result EXCEPT ![d] = [kind |-> "return", error |-> NoError, data |-> data]]
    /\ UNCHANGED <<lastError, waits>>

\* The network outcome of the current attempt of client d.
Cur(d) == net[attempt[d] + 1]

\* ---------------------------------------------------------------- responses handed to the parser

\* A nullable string of the wire contract.
Null == [isNull |-> TRUE, s |-> ""]
Str(x) == [isNull |-> FALSE, s |-> x]
\* `!value` on a nullable string: null and "" are falsy.
FalsyStr(v) == v.isNull \/ v.s = ""

BBoxes == {[x1 |-> 100, y1 |-> 100, x2 |-> 300, y2 |-> 130],
           [x1 |-> 0, y1 |-> 0, x2 |-> 5, y2 |-> 3]}
Meshes == {[x |-> 100, y |-> 100, width |-> 200, height |-> 30],
           [x |-> 10, y |-> 20, width |-> 3, height |-> 4]}
Boxes == [bbox : BBoxes, mesh : Meshes]
NoBox == [bbox |-> [x1 |-> 0, y1 |-> 0, x2 |-> 0, y2 |-> 0],
          mesh |-> [x |-> 0, y |-> 0, width |-> 0, height |-> 0]]

BoxSeqs == UNION {[1..n -> Boxes] : n \in 0..MaxBoxes}

ActionKinds == {"click", "type", "scroll", "hover"}
Directives ==
    [action : ActionKinds,
     input_text : {Null, Str(""), Str("BrowserBase")},
     scroll_direction : {Null, Str(""), Str("up"), Str("down")}]

\* The responses tried: they pass validateResponse (boxes is an array,
\* chosen_action an object, chosen_element_index a number), and the index may
\* lie outside the boxes.
Responses ==
    [boxes : BoxSeqs, chosen_action : Directives,
     chosen_element_index : (-1)..MaxBoxes]
NoResponse ==
    [boxes |-> <<>>, chosen_action |-> [action |-> "none", input_text |-> Null,
                                        scroll_direction |-> Null],
     chosen_element_index |-> 0]

\* ---------------------------------------------------------------- parseResponse

\* Coordinates are held in half pixels, so that the halves the code computes
\* (x1 + width / 2) stay integers: Twice(a) + b stands for a + b / 2.
Twice(n) == 2 * n

NoCoordinates == [x |-> 0, y |-> 0]
ParsedAction(method, hasCoordinates, coordinates, hasValue, value) ==
    [method |-> method, hasCoordinates |-> hasCoordinates, coordinates |-> coordinates,
     hasValue |-> hasValue, value |-> value]
NoAction == ParsedAction("none", FALSE, NoCoordinates, FALSE, "")

Returns(action) == [kind |-> "return", action |-> action, error |-> NoError]
Throws(error) == [kind |-> "throw", action |-> NoAction, error |-> error]
NoParse == [kind |-> "none", action |-> NoAction, error |-> NoError]

\* boxes[chosen_element_index] (0-based): undefined outside the array.
TargetBox(response) ==
    LET i == response.chosen_element_index
    IN  IF i >= 0 /\ i < Len(response.boxes)
        THEN [defined |-> TRUE, box |-> response.boxes[i + 1]]
        ELSE [defined |-> FALSE, box |-> NoBox]

\* Reading a property of undefined.
UndefinedRead(prop) ==
    MkError("TypeError", <<"Cannot read properties of undefined (reading '", prop, "')">>)

\* A click computed from the mesh of the box instead of its bbox.
parseClickAction_FromMesh(target) ==
    IF ~target.defined THEN Throws(UndefinedRead("bbox"))
    ELSE LET m == target.box.mesh
         IN  Returns(ParsedAction("click", TRUE,
                                  [x |-> Twice(m.x) + m.width, y |-> Twice(m.y) + m.height],
                                  FALSE, ""))

parseClickAction(target) ==
    IF ~target.defined THEN Throws(UndefinedRead("bbox"))
    ELSE LET b == target.box.bbox
             width == b.x2 - b.x1
             height == b.y2 - b.y1
         IN  Returns(ParsedAction("click", TRUE,
                                  [x |-> Twice(b.x1) + width, y |-> Twice(b.y1) + height],
                                  FALSE, ""))

\* A fill computed from the bbox of the box instead of its mesh.
parseTypeAction_FromBbox(target, action) ==
    IF FalsyStr(action.input_text)
    THEN Throws(MkError("Error", <<"Type action requires input text">>))
    ELSE IF ~target.defined THEN Throws(UndefinedRead("bbox"))
    ELSE LET b == target.box.bbox
         IN  Returns(ParsedAction("fill", TRUE,
                                  [x |-> b.x1 + b.x2, y |-> b.y1 + b.y2],
                                  TRUE, action.input_text.s))

\* A type parser that reads the box before it tests input_text.
parseTypeAction_BoxFirst(target, action) ==
    IF ~target.defined THEN Throws(UndefinedRead("mesh"))
    ELSE IF FalsyStr(action.input_text)
    THEN Throws(MkError("Error", <<"Type action requires input text">>))
    ELSE LET m == target.box.mesh
         IN  Returns(ParsedAction("fill", TRUE,
                                  [x |-> Twice(m.x) + m.width, y |-> Twice(m.y) + m.height],
                                  TRUE, action.input_text.s))

\* A type parser that leaves the value out of the action it returns.
parseTypeAction_DropsValue(target, action) ==
    IF FalsyStr(action.input_text)
    THEN Throws(MkError("Error", <<"Type action requires input text">>))
    ELSE IF ~target.defined THEN Throws(UndefinedRead("mesh"))
    ELSE LET m == target.box.mesh
         IN  Returns(ParsedAction("fill", TRUE,
                                  [x |-> Twice(m.x) + m.width, y |-> Twice(m.y) + m.height],
                                  FALSE, ""))

parseTypeAction(target, action) ==
    IF FalsyStr(action.input_text)
    THEN Throws(MkError("Error", <<"Type action requires input text">>))
    ELSE IF ~target.defined THEN Throws(UndefinedRead("mesh"))
    ELSE LET m == target.box.mesh
         IN  Returns(ParsedAction("fill", TRUE,
                                  [x |-> Twice(m.x) + m.width, y |-> Twice(m.y) + m.height],
                                  TRUE, action.input_text.s))

\* A scroll parser that rejects a null direction only.
parseScrollAction_NullOnly(action) ==
    IF action.scroll_direction.isNull
    THEN Throws(MkError("Error", <<"Scroll action requires direction">>))
    ELSE Returns(ParsedAction("scroll", FALSE, NoCoordinates, TRUE, action.scroll_direction.s))

parseScrollAction(action) ==
    IF FalsyStr(action.scroll_direction)
    THEN Throws(MkError("Error", <<"Scroll action requires direction">>))
    ELSE Returns(ParsedAction("scroll", FALSE, NoCoordinates, TRUE, action.scroll_direction.s))

\* A switch whose default case clicks.
Dispatch_DefaultClicks(response) ==
    LET action == response.chosen_action
    IN  CASE action.action = "type" -> parseTypeAction(TargetBox(response), action)
          [] action.action = "scroll" -> parseScrollAction(action)
          [] OTHER -> parseClickAction(TargetBox(response))

\* A switch whose scroll case reads the target box first.
Dispatch_ScrollReadsBox(response) ==
    LET action == response.chosen_action
    IN  CASE action.action = "click" -> parseClickAction(TargetBox(response))
          [] action.action = "type" -> parseTypeAction(TargetBox(response), action)
          [] action.action = "scroll" ->
                IF TargetBox(response).defined THEN parseScrollAction(action)
                ELSE Throws(UndefinedRead("bbox"))
          [] OTHER -> Throws(MkError("Error", <<"Unsupported action: ", action.action>>))

\* The switch of parseResponse on chosen_action.action.
Dispatch(response) ==
    LET action == response.chosen_action
    IN  CASE action.action = "click" -> parseClickAction(TargetBox(response))
          [] action.action = "type" -> parseTypeAction(TargetBox(response), action)
          [] action.action = "scroll" -> parseScrollAction(action)
          [] OTHER -> Throws(MkError("Error", <<"Unsupported action: ", action.action>>))

\* The two parsers of the repository: the minimal one, and the one that can
\* render debug overlays, with its debug option off or on.
Parsers ==
    {[variant |-> "minimal", debug |-> FALSE],
     [variant |-> "overlay", debug |-> FALSE],
     [variant |-> "overlay", debug |-> TRUE]}
NoParser == [variant |-> "none", debug |-> FALSE]

NewPage == [url |-> "original", ops |-> <<>>]

\* ---------------------------------------------------------------- executeAction

\* The executeAction calls that may be in progress on the one page.
ExecCalls == {1, 2}

ExecCoordinates == {[x |-> 400, y |-> 230], [x |-> 5, y |-> 3]}
ExecValues == {"", "up", "BrowserBase"}

\* The ParsedAction objects handed to executeAction: any method of the
\* interface, coordinates and value present or not.
ExecActions ==
    {ParsedAction(m, hc, IF hc THEN c ELSE NoCoordinates, hv, IF hv THEN v ELSE "") :
        m \in {"click", "fill", "press", "scroll"}, hc \in BOOLEAN,
        c \in ExecCoordinates, hv \in BOOLEAN, v \in ExecValues}

\* The device-control primitives of the page.
DeviceOp(op, x, y, steps, ms, text) ==
    [op |-> op, x |-> x, y |-> y, steps |-> steps, ms |-> ms, text |-> text]
MouseMove(c, steps) == DeviceOp("mouse.move", c.x, c.y, steps, 0, "")
MouseClick(c) == DeviceOp("mouse.click", c.x, c.y, 0, 0, "")
WaitForTimeout(ms) == DeviceOp("waitForTimeout", 0, 0, 0, ms, "")
KeyboardType(text) == DeviceOp("keyboard.type", 0, 0, 0, 0, text)
MouseWheel(deltaX, deltaY) == DeviceOp("mouse.wheel", deltaX, deltaY, 0, 0, "")

\* `if (parsedAction.value)`: absent and "" are falsy.
TruthyValue(a) == a.hasValue /\ a.value # ""

\* A click whose move does not interpolate.
ClickPlan_Jump(a) ==
    IF a.hasCoordinates
    THEN <<MouseMove(a.coordinates, 1), MouseClick(a.coordinates)>>
    ELSE <<>>

\* case "click" (lines 86-98 and 392-404).
ClickPlan(a) ==
    IF a.hasCoordinates
    THEN <<MouseMove(a.coordinates, 10), MouseClick(a.coordinates)>>
    ELSE <<>>

\* A fill that types before it waits.
FillPlan_TypesBeforeWait(a) ==
    IF a.hasCoordinates /\ TruthyValue(a)
    THEN <<MouseMove(a.coordinates, 10), MouseClick(a.coordinates),
           KeyboardType(a.value), WaitForTimeout(1000)>>
    ELSE <<>>

\* case "fill" (lines 100-114 and 406-420).
FillPlan(a) ==
    IF a.hasCoordinates /\ TruthyValue(a)
    THEN <<MouseMove(a.coordinates, 10), MouseClick(a.coordinates),
           WaitForTimeout(1000), KeyboardType(a.value)>>
    ELSE <<>>

\* A scroll that goes up whenever a direction is given.
ScrollPlan_UpIfGiven(a) ==
    IF TruthyValue(a)
    THEN <<MouseWheel(0, -100)>>
    ELSE <<MouseWheel(0, 100)>>

\* case "scroll" (lines 116-122 and 422-428).
ScrollPlan(a) ==
    IF a.hasValue /\ a.value = "up"
    THEN <<MouseWheel(0, -100)>>
    ELSE <<MouseWheel(0, 100)>>

\* The primitives executeAction awaits for action a, in order: its switch on
\* parsedAction.method, which has no default case.
Plan(a) ==
    CASE a.method = "click" -> ClickPlan(a)
      [] a.method = "fill" -> FillPlan(a)
      [] a.method = "scroll" -> ScrollPlan(a)
      [] OTHER -> <<>>

\* What a primitive may raise.
DeviceErrors ==
    {MkError("TimeoutError", <<"Timeout 30000ms exceeded">>),
     MkError("Error", <<"Target page, context or browser has been closed">>)}

ExecCall(a, at, done, error) == [action |-> a, pc |-> at, done |-> done, error |-> error]
NoCall == ExecCall(NoAction, "idle", 0, NoError)

\* An entry of the device history: call c issued op, or op ended for it.
DeviceEvent(c, ev, op, error) == [call |-> c, ev |-> ev, op |-> op, error |-> error]

\* No executeAction call was made.
ExecUnused ==
    /\ calls = [c \in ExecCalls |-> NoCall]
    /\ device = <<>>

\* The parser side at rest, as it stays while reason runs.
ParserUnused ==
    /\ parser = NoParser
    /\ ppc = "unused"
    /\ presp = NoResponse
    /\ page = NewPage
    /\ parsed = NoParse

\* ---------------------------------------------------------------- actions of reason

\* Both clients constructed from options o, reason not yet called.
ClientInit(o) ==
    /\ opts = o
    /\ net = <<>>
    /\ pc = [d \in Clients |-> "idle"]
    /\ attempt = [d \in Clients |-> 0]
    /\ delay = [d \in Clients |-> 0]
    /\ lastError = [d \in Clients |-> NoError]
    /\ timers = [d \in Clients |-> {}]
    /\ elapsed = [d \in Clients |-> 0]
    /\ waits = [d \in Clients |-> <<>>]
    /\ hist = [d \in Clients |-> <<>>]
    /\ result = [d \in Clients |-> NoResult]

Init ==
    /\ \E o \in Options : ClientInit(o)
    /\ ParserUnused
    /\ ExecUnused

\* Whether the call of client d has ended.
Done(d) == pc[d] \in {"returned", "threw"}

\* The two calls do not depend on each other: the client without debug runs
\* its call first, the client with debug after it.
Turn(d) == d => Done(FALSE)

\* Whether the abort timer of the current attempt is armed.
Armed(d) == attempt[d] \in timers[d]

\* When the pending network operation of client d settles, counted from the
\* issue of the request: the headers for fetch, the end of the body for a read.
SettleTime(d) ==
    IF pc[d] = "fetching" THEN Cur(d).hdrLat ELSE Cur(d).hdrLat + Cur(d).bodyLat

\* reason is called: exponentialBackoff starts its loop (lines 50-53).
Reason(d) ==
    /\ Turn(d)
    /\ pc[d] = "idle"
    /\ pc' = [pc EXCEPT ![d] = "call"]
    /\ attempt' = [attempt EXCEPT ![d] = 0]
    /\ delay' = [delay EXCEPT ![d] = This(d).initialRetryDelayMs]
    /\ UNCHANGED <<opts, net, lastError, timers, elapsed, waits, hist, result>>
    /\ UNCHANGED <<pvars, evars>>

\* exponentialBackoff calls the attempt (line 55), which runs up to its await
\* of fetch (lines 113-152): the debug writes of the request, then the abort
\* timer and the request. The attempt meets the network outcome its number
\* has for both clients.
CallFn(d) ==
    /\ Turn(d)
    /\ pc[d] = "call"
    /\ \E writeOk \in (IF This(d).debug THEN BOOLEAN ELSE {TRUE}) :
        IF This(d).debug /\ ~writeOk
        THEN /\ OnThrow(d, Rethrow(This(d), FsError),
                        HistEntry("none", 0, Rethrow(This(d), FsError), FALSE))
             /\ UNCHANGED <<net, timers, elapsed>>
        ELSE /\ IF Len(net) >= attempt[d] + 1
                THEN net' = net
                ELSE \E o \in NetOutcomes : net' = Append(net, o)
             /\ timers' = [timers EXCEPT ![d] = @ \cup {attempt[d]}]
             /\ elapsed' = [elapsed EXCEPT ![d] = 0]
             /\ pc' = [pc EXCEPT ![d] = "fetching"]
             /\ UNCHANGED <<lastError, waits, hist, result>>
    /\ UNCHANGED <<opts, attempt, delay>>
    /\ UNCHANGED <<pvars, evars>>

\* fetch settles before the deadline: it rejects below HTTP (the attempt's
\* finally and catch blocks run), or it resolves with the response headers
\* and the attempt goes on to read the body (lines 152-177).
FetchSettles(d) ==
    /\ Turn(d)
    /\ pc[d] = "fetching"
    /\ Armed(d) => Cur(d).hdrLat <= This(d).timeoutMs
    /\ elapsed' = [elapsed EXCEPT ![d] = Cur(d).hdrLat]
    /\ IF Cur(d).kind = "reject"
       THEN LET e == Rethrow(This(d), MkError("TypeError", Cur(d).message))
            IN  /\ timers' = [timers EXCEPT ![d] = ClearTimeout(@, attempt[d])]
                /\ OnThrow(d, e, HistEntry("reject", 0, e, FALSE))
       ELSE /\ pc' = [pc EXCEPT ![d] = "reading"]
            /\ UNCHANGED <<timers, lastError, waits, hist, result>>
    /\ UNCHANGED <<opts, net, attempt, delay>>
    /\ UNCHANGED <<pvars, evars>>

\* The body arrives before the deadline: the rest of the attempt runs (lines
\* 163-191), then exponentialBackoff's handling of what it returned or threw.
BodySettles(d) ==
    /\ Turn(d)
    /\ pc[d] = "reading"
    /\ Armed(d) => Cur(d).hdrLat + Cur(d).bodyLat <= This(d).timeoutMs
    /\ elapsed' = [elapsed EXCEPT ![d] = Cur(d).hdrLat + Cur(d).bodyLat]
    /\ timers' = [timers EXCEPT ![d] = ClearTimeout(@, attempt[d])]
    /\ \E writeOk \in (IF This(d).debug THEN BOOLEAN ELSE {TRUE}) :
        LET e == AfterBody(This(d), Cur(d), writeOk)
            m == Malformed(This(d), Cur(d), writeOk)
        IN  IF e = NoError
            THEN OnReturn(d, Cur(d).json, HistEntry("response", Cur(d).status, NoError, FALSE))
            ELSE OnThrow(d, Rethrow(This(d), e),
                         HistEntry("response", Cur(d).status, Rethrow(This(d), e), m))
    /\ UNCHANGED <<opts, net, attempt, delay>>
    /\ UNCHANGED <<pvars, evars>>

\* The abort timer fires while the request or the body read is pending (line
\* 149): controller.abort() makes the pending operation reject with an
\* AbortError, and the attempt's finally and catch blocks run.
AbortTimerFires(d) ==
    /\ Turn(d)
    /\ pc[d] \in {"fetching", "reading"}
    /\ Armed(d)
    /\ This(d).timeoutMs <= SettleTime(d)
    /\ elapsed' = [elapsed EXCEPT ![d] = This(d).timeoutMs]
    /\ timers' = [timers EXCEPT ![d] = ClearTimeout(@ \ {attempt[d]}, attempt[d])]
    /\ LET e == Rethrow(This(d), AbortError)
       IN  OnThrow(d, e, HistEntry("abort", 0, e, FALSE))
    /\ UNCHANGED <<opts, net, attempt, delay>>
    /\ UNCHANGED <<pvars, evars>>

\* The backoff sleep ends (line 66): the delay doubles up to the maximum (line
\* 67) and the loop goes to its next attempt (line 53).
Wake(d) ==
    /\ Turn(d)
    /\ pc[d] = "sleeping"
    /\ delay' = [delay EXCEPT ![d] = NextDelay(@, This(d).maxRetryDelayMs)]
    /\ attempt' = [attempt EXCEPT ![d] = @ + 1]
    /\ pc' = [pc EXCEPT ![d] = "call"]
    /\ UNCHANGED <<opts, net, lastError, timers, elapsed, waits, hist, result>>
    /\ UNCHANGED <<pvars, evars>>

Next ==
    \/ \E d \in Clients : Reason(d)
    \/ \E d \in Clients : CallFn(d)
    \/ \E d \in Clients : FetchSettles(d)
    \/ \E d \in Clients : BodySettles(d)
    \/ \E d \in Clients : AbortTimerFires(d)
    \/ \E d \in Clients : Wake(d)

Spec == Init /\ [][Next]_vars


\* ---------------------------------------------------------------- actions of parseResponse

NoOptions ==
    [maxRetries |-> Absent, initialRetryDelayMs |-> Absent,
     maxRetryDelayMs |-> Absent, timeoutMs |-> Absent]

\* A parser constructed on a fresh page; the clients stay unused.
InitParser ==
    /\ ClientInit(NoOptions)
    /\ parser \in Parsers
    /\ ppc = "idle"
    /\ presp = NoResponse
    /\ page = NewPage
    /\ parsed = NoParse
    /\ ExecUnused

\* The page after operation op was issued on it, ending at url.
Issue(op, url) == [url |-> url, ops |-> Append(page.ops, op)]

\* parseResponse reaches its switch (lines 33-42 and 339-348).
Finish(response) ==
    /\ parsed' = Dispatch(response)
    /\ ppc' = "parsed"

\* Building the overlay of the chosen box (lines 158-170) reads
\* chosenBox.bbox whenever boxes.length > chosen_element_index.
OverlayThrows(response) ==
    /\ Len(response.boxes) > response.chosen_element_index
    /\ ~TargetBox(response).defined

\* parseResponse is called with a response. Without debug it goes straight to
\* its switch; with debug it enters saveDebugWithBoundingBoxes, which first
\* makes sure of the debug directory (lines 127-130) and swallows a failure.
ParseResponse ==
    /\ ppc = "idle"
    /\ \E r \in Responses :
        /\ presp' = r
        /\ IF parser.debug
           THEN \E fsOk \in BOOLEAN :
                    IF fsOk THEN ppc' = "screenshot" /\ parsed' = parsed
                    ELSE Finish(r)
           ELSE Finish(r)
    /\ UNCHANGED <<parser, page>>
    /\ UNCHANGED <<cvars, evars>>

\* The screenshot of line 133, then the writes and the overlay up to the
\* temporary page (lines 136-224); any failure ends the debug step.
SaveScreenshot ==
    /\ ppc = "screenshot"
    /\ page' = Issue("screenshot", page.url)
    /\ \E ok \in BOOLEAN, fsOk \in BOOLEAN :
        IF ok /\ fsOk /\ ~OverlayThrows(presp)
        THEN ppc' = "goto_temp" /\ parsed' = parsed
        ELSE Finish(presp)
    /\ UNCHANGED <<parser, presp>>
    /\ UNCHANGED <<cvars, evars>>

\* page.goto of the temporary page (line 228).
SaveGotoTemp ==
    /\ ppc = "goto_temp"
    /\ \E ok \in BOOLEAN :
        IF ok THEN page' = Issue("goto", "temporary") /\ ppc' = "overlay_shot"
        ELSE page' = Issue("goto", page.url) /\ ppc' = "recover"
    /\ UNCHANGED <<parser, presp, parsed>>
    /\ UNCHANGED <<cvars, evars>>

\* The screenshot of the rendered overlay (line 231).
SaveOverlayShot ==
    /\ ppc = "overlay_shot"
    /\ page' = Issue("screenshot", page.url)
    /\ \E ok \in BOOLEAN : ppc' = IF ok THEN "goto_back" ELSE "recover"
    /\ UNCHANGED <<parser, presp, parsed>>
    /\ UNCHANGED <<cvars, evars>>

\* page.goto back to the original URL and the removal of the temporary file
\* (lines 234-237); the last write (line 298) may fail and is swallowed.
SaveGotoBack ==
    /\ ppc = "goto_back"
    /\ \E ok \in BOOLEAN, fsOk \in BOOLEAN :
        IF ok
        THEN /\ page' = Issue("goto", "original")
             /\ IF fsOk THEN Finish(presp) ELSE ppc' = "recover" /\ parsed' = parsed
        ELSE /\ page' = Issue("goto", page.url)
             /\ ppc' = "recover" /\ parsed' = parsed
    /\ UNCHANGED <<parser, presp>>
    /\ UNCHANGED <<cvars, evars>>

\* A recovery without the outer catch block: a navigation that fails again
\* ends parseResponse with its error.
SaveRecover_Escapes ==
    /\ ppc = "recover"
    /\ \E ok \in BOOLEAN :
        /\ page' = Issue("goto", IF ok THEN "original" ELSE page.url)
        /\ IF ok THEN Finish(presp)
           ELSE /\ parsed' = Throws(MkError("Error", <<"net::ERR_ABORTED">>))
                /\ ppc' = "parsed"
    /\ UNCHANGED <<parser, presp>>
    /\ UNCHANGED <<cvars, evars>>

\* The inner catch block (lines 238-242): page.goto of the original URL once
\* more; if that fails too, the outer catch block swallows the error.
SaveRecover ==
    /\ ppc = "recover"
    /\ \E ok \in BOOLEAN :
        page' = Issue("goto", IF ok THEN "original" ELSE page.url)
    /\ Finish(presp)
    /\ UNCHANGED <<parser, presp>>
    /\ UNCHANGED <<cvars, evars>>

NextParser ==
    \/ ParseResponse
    \/ SaveScreenshot
    \/ SaveGotoTemp
    \/ SaveOverlayShot
    \/ SaveGotoBack
    \/ SaveRecover

SpecParser == InitParser /\ [][NextParser]_vars

\* ---------------------------------------------------------------- actions of executeAction

\* A parser on a fresh page whose executeAction is about to be called; the
\* clients stay unused and parseResponse is not running.
InitExec ==
    /\ ClientInit(NoOptions)
    /\ parser \in Parsers
    /\ ppc = "idle"
    /\ presp = NoResponse
    /\ page = NewPage
    /\ parsed = NoParse
    /\ ExecUnused

\* executeAction is called with a parsed action: it runs up to its first
\* await, or to its end when the switch awaits nothing.
ExecuteAction(c) ==
    /\ calls[c].pc = "idle"
    /\ \E a \in ExecActions :
        IF Plan(a) = <<>>
        THEN /\ calls' = [calls EXCEPT ![c] = ExecCall(a, "returned", 0, NoError)]
             /\ device' = device
        ELSE /\ calls' = [calls EXCEPT ![c] = ExecCall(a, "awaiting", 0, NoError)]
             /\ device' = Append(device, DeviceEvent(c, "issue", Plan(a)[1], NoError))
    /\ UNCHANGED <<cvars, pvars>>

\* The awaited primitive of call c resolves: executeAction goes on to its
\* next primitive, or returns after the last one.
PrimitiveResolves(c) ==
    /\ calls[c].pc = "awaiting"
    /\ LET a == calls[c].action
           n == calls[c].done + 1
           resolved == Append(device, DeviceEvent(c, "done", Plan(a)[n], NoError))
       IN  IF n = Len(Plan(a))
           THEN /\ calls' = [calls EXCEPT ![c] = ExecCall(a, "returned", n, NoError)]
                /\ device' = resolved
           ELSE /\ calls' = [calls EXCEPT ![c] = ExecCall(a, "awaiting", n, NoError)]
                /\ device' = Append(resolved,
                                    DeviceEvent(c, "issue", Plan(a)[n + 1], NoError))
    /\ UNCHANGED <<cvars, pvars>>

\* A rejection that is swallowed: the call goes on as if the primitive had
\* resolved.
PrimitiveRejects_GoesOn(c) ==
    /\ calls[c].pc = "awaiting"
    /\ \E e \in DeviceErrors :
        LET a == calls[c].action
            n == calls[c].done + 1
            failed == Append(device, DeviceEvent(c, "fail", Plan(a)[n], e))
        IN  IF n = Len(Plan(a))
            THEN /\ calls' = [calls EXCEPT ![c] = ExecCall(a, "returned", n, NoError)]
                 /\ device' = failed
            ELSE /\ calls' = [calls EXCEPT ![c] = ExecCall(a, "awaiting", n, NoError)]
                 /\ device' = Append(failed,
                                     DeviceEvent(c, "issue", Plan(a)[n + 1], NoError))
    /\ UNCHANGED <<cvars, pvars>>

\* The awaited primitive of call c rejects: nothing in executeAction catches
\* the error, so the call ends with it.
PrimitiveRejects(c) ==
    /\ calls[c].pc = "awaiting"
    /\ \E e \in DeviceErrors :
        LET a == calls[c].action
            n == calls[c].done + 1
        IN  /\ calls' = [calls EXCEPT ![c] = ExecCall(a, "threw", calls[c].done, e)]
            /\ device' = Append(device, DeviceEvent(c, "fail", Plan(a)[n], e))
    /\ UNCHANGED <<cvars, pvars>>

NextExec ==
    \/ \E c \in ExecCalls : ExecuteAction(c)
    \/ \E c \in ExecCalls : PrimitiveResolves(c)
    \/ \E c \in ExecCalls : PrimitiveRejects(c)

SpecExec == InitExec /\ [][NextExec]_vars

\* ---------------------------------------------------------------- parseResponse, then executeAction

\* The driver's step after parseResponse has returned (coffeeblack_example
\* lines 41-43, googleSearchExample lines 40-41): executeAction is called
\* with the parsed action and runs up to its first await, or to its end.
ExecuteParsed ==
    /\ ppc = "parsed"
    /\ parsed.kind = "return"
    /\ calls[1].pc = "idle"
    /\ LET a == parsed.action
       IN  IF Plan(a) = <<>>
           THEN /\ calls' = [calls EXCEPT ![1] = ExecCall(a, "returned", 0, NoError)]
                /\ device' = device
           ELSE /\ calls' = [calls EXCEPT ![1] = ExecCall(a, "awaiting", 0, NoError)]
                /\ device' = Append(device, DeviceEvent(1, "issue", Plan(a)[1], NoError))
    /\ UNCHANGED <<cvars, pvars>>

NextPipeline ==
    \/ ParseResponse
    \/ SaveScreenshot
    \/ SaveGotoTemp
    \/ SaveOverlayShot
    \/ SaveGotoBack
    \/ SaveRecover
    \/ ExecuteParsed
    \/ \E c \in ExecCalls : PrimitiveResolves(c)
    \/ \E c \in ExecCalls : PrimitiveRejects(c)

SpecPipeline == InitParser /\ [][NextPipeline]_vars

\* ================================================================ claims on reason

Attempts(d) == 1..Len(hist[d])
Is4xx(status) == status >= 400 /\ status <= 499
Is5xx(status) == status >= 500 /\ status <= 599

\* The i-th attempt of client d is not the end of the call: reason slept
\* after it (and so goes on to a further attempt) instead of throwing.
RetriedAfter(d, i) ==
    /\ Len(waits[d]) >= i
    /\ ~(pc[d] = "threw" /\ Len(hist[d]) = i)

\* The i-th attempt of client d is the last one: its error went to the caller
\* at once, with no sleep after it.
PropagatedAt(d, i) ==
    /\ Len(hist[d]) = i
    /\ Len(waits[d]) = i - 1
    /\ pc[d] = "threw"
    /\ result[d] = [kind |-> "throw", error |-> hist[d][i].threw, data |-> NoJson]

\* C1 (as claimed): an attempt that fails with a network-layer failure (fetch
\* rejects below HTTP) while fewer than maxRetries retries have been made is
\* followed by a backoff sleep and another attempt, not by the error going to
\* the caller.
C1_NetworkFailureIsRetried ==
    \A d \in Clients : \A i \in Attempts(d) :
        (hist[d][i].event = "reject" /\ i - 1 < This(d).maxRetries)
            => RetriedAfter(d, i)

\* C2 (as claimed): an attempt that receives a status in 400..499, whatever
\* the body text, is the last attempt: no backoff sleep follows it and the
\* upstream error (status and body) goes to the caller.
C2_ClientErrorIsNotRetried ==
    \A d \in Clients : \A i \in Attempts(d) :
        (hist[d][i].event = "response" /\ Is4xx(hist[d][i].status))
            => /\ PropagatedAt(d, i)
               /\ hist[d][i].threw = ApiError(net[i].status, net[i].text)

RECURSIVE Pow2(_)
Pow2(i) == IF i = 0 THEN 1 ELSE 2 * Pow2(i - 1)

\* The i-th attempt of client d failed with a 5xx upstream error.
Fails5xx(d, i) ==
    /\ hist[d][i].event = "response"
    /\ Is5xx(hist[d][i].status)
    /\ hist[d][i].threw = ApiError(net[i].status, net[i].text)

\* The first k attempts of client d failed with 5xx upstream errors and
\* attempt k+1 returned a success-status body that is structurally valid.
FailsThenSucceeds(d, k) ==
    /\ Len(hist[d]) >= k + 1
    /\ \A i \in 1..k : Fails5xx(d, i)
    /\ hist[d][k + 1].event = "response"
    /\ hist[d][k + 1].threw = NoError

ReturnedAfter(d, k) ==
    /\ pc[d] = "returned"
    /\ result[d] = [kind |-> "return", error |-> NoError, data |-> net[k + 1].json]
    /\ Len(hist[d]) = k + 1
    /\ Len(waits[d]) = k

\* C3 (as claimed): after k attempts failing with 5xx and a valid success at
\* attempt k+1, reason returns that response after exactly k+1 attempts and k
\* sleeps, the i-th sleep (i = 0..k-1) lasting min(initialDelayMs * 2^i,
\* maxDelayMs).
C3_WaitsAllCapped ==
    \A d \in Clients : \A k \in 0..This(d).maxRetries :
        FailsThenSucceeds(d, k)
            => /\ ReturnedAfter(d, k)
               /\ \A i \in 0..(k - 1) :
                    waits[d][i + 1] =
                        Min(This(d).initialRetryDelayMs * Pow2(i), This(d).maxRetryDelayMs)

\* C3 witness: two 5xx failures, then a success, with an initial delay above
\* the maximum delay.
C3_Witness ==
    \E d \in Clients :
        /\ FailsThenSucceeds(d, 2)
        /\ This(d).initialRetryDelayMs > This(d).maxRetryDelayMs

\* C4 (as claimed): no sleep between two attempts, the first one included, is
\* longer than maxRetryDelayMs.
C4_EveryWaitCapped ==
    \A d \in Clients : \A i \in 1..Len(waits[d]) :
        waits[d][i] <= This(d).maxRetryDelayMs

\* C4 witness: three sleeps under an initial delay above the maximum delay.
C4_Witness ==
    \E d \in Clients :
        /\ Len(waits[d]) >= 3
        /\ This(d).initialRetryDelayMs > This(d).maxRetryDelayMs
        /\ waits[d][1] > waits[d][2]

\* Every attempt client d made threw an error that reason classifies as
\* transient, that is, one its shouldRetry predicate accepts.
AllTransient(d) ==
    \A i \in Attempts(d) : hist[d][i].threw # NoError /\ shouldRetry(hist[d][i].threw)

C6_Deadline ==
    \A d \in Clients :
        /\ \A i \in Attempts(d) :
            /\ hist[d][i].event = "abort"
                => /\ net[i].hdrLat + net[i].bodyLat >= This(d).timeoutMs
                   /\ hist[d][i].threw.name = "Error"
                   /\ Includes(hist[d][i].threw.message, TimedOutPat)
                   /\ Includes(hist[d][i].threw.message,
                               Digits(This(d).timeoutMs) \o <<"ms">>)
                   /\ i <= This(d).maxRetries => RetriedAfter(d, i)
            /\ hist[d][i].event = "reject" => net[i].hdrLat <= This(d).timeoutMs
            /\ hist[d][i].event = "response"
                => net[i].hdrLat + net[i].bodyLat <= This(d).timeoutMs
        /\ pc[d] \in {"fetching", "reading"}
            => Armed(d) /\ elapsed[d] <= This(d).timeoutMs
        /\ timers[d] \subseteq {attempt[d]}
        /\ pc[d] \notin {"fetching", "reading"} => timers[d] = {}

\* C6 witness: an attempt timed out while its body was being read, and reason
\* went on to a second attempt.
C6_Witness ==
    \E d \in Clients :
        /\ Len(hist[d]) >= 2
        /\ hist[d][1].event = "abort"
        /\ net[1].hdrLat < This(d).timeoutMs

\* The required fields in the order validation names them, and what the
\* contract asks of each.
FieldOrder ==
    <<"query", "boxes", "chosen_action", "chosen_element_index", "explanation">>

FieldOk(data, f) ==
    CASE f = "query" -> data.query = "string"
      [] f = "boxes" -> data.boxes = "array"
      [] f = "chosen_action" -> data.chosen_action \in {"object", "array"}
      [] f = "chosen_element_index" -> data.chosen_element_index = "number"
      [] f = "explanation" -> data.explanation = "string"

StructurallyValid(data) ==
    data.top = "object" /\ \A n \in 1..Len(FieldOrder) : FieldOk(data, FieldOrder[n])

\* The first field of data, in validation order, that is not as required.
FirstInvalid(data) ==
    FieldOrder[CHOOSE n \in 1..Len(FieldOrder) :
        /\ ~FieldOk(data, FieldOrder[n])
        /\ \A m \in 1..(n - 1) : FieldOk(data, FieldOrder[m])]

\* A MalformedResponse error naming field f.
IsMalformedNaming(e, f) ==
    /\ e.name = "Error"
    /\ Len(e.message) >= 3
    /\ e.message[1] = "Invalid response: "
    /\ e.message[3] = f

\* C7 (as claimed): every value reason returns is structurally valid, and an
\* attempt that receives a success status with a JSON object that is not
\* makes reason fail with a MalformedResponse naming the first invalid field.
C7_MalformedIsRejected ==
    \A d \in Clients :
        /\ result[d].kind = "return" => StructurallyValid(result[d].data)
        /\ \A i \in Attempts(d) :
            ( /\ hist[d][i].event = "response"
              /\ ResponseOk(net[i].status) /\ net[i].isJson
              /\ net[i].json.top = "object"
              /\ ~StructurallyValid(net[i].json) )
                => /\ IsMalformedNaming(hist[d][i].threw, FirstInvalid(net[i].json))
                   /\ PropagatedAt(d, i)

\* C8: an attempt whose validateResponse throws is the last one, however many
\* transient failures came before it: the MalformedResponse error goes to the
\* caller with no sleep after it.
C8_MalformedNotRetried ==
    \A d \in Clients : \A i \in Attempts(d) :
        hist[d][i].malformed
            => /\ PropagatedAt(d, i)
               /\ hist[d][i].threw.message[1] = "Invalid response: "
               /\ hist[d][i].threw = validateResponse(net[i].json)

\* C8 witness: a validation failure at the third attempt, with retries left.
C8_Witness ==
    \E d \in Clients :
        /\ Len(hist[d]) = 3
        /\ hist[d][3].malformed
        /\ This(d).maxRetries >= 3

\* C9 (as claimed): for the same network outcomes, and whether the debug
\* writes succeed or fail, the call with debug enabled ends as the call with
\* debug disabled does: same response or same error, same number of attempts.
C9_DebugChangesNothing ==
    (Done(TRUE) /\ Done(FALSE))
        => /\ result[TRUE] = result[FALSE]
           /\ Len(hist[TRUE]) = Len(hist[FALSE])

\* ================================================================ claims on parseResponse

\* parseResponse has ended on a click directive whose chosen_element_index is
\* a valid index of boxes.
ParsedValidClick ==
    /\ ppc = "parsed"
    /\ presp.chosen_action.action = "click"
    /\ presp.chosen_element_index \in 0..(Len(presp.boxes) - 1)

\* C10: for a click directive with a valid chosen_element_index, parseResponse
\* returns method click with the midpoint of boxes[chosen_element_index].bbox
\* as coordinates (in half pixels: x1 + x2, y1 + y2), whatever that box's mesh
\* and the other boxes are.
C10_ClickUsesBboxMidpoint ==
    ParsedValidClick =>
        LET b == presp.boxes[presp.chosen_element_index + 1].bbox
        IN  /\ parsed.kind = "return"
            /\ parsed.action.method = "click"
            /\ parsed.action.hasCoordinates
            /\ parsed.action.coordinates = [x |-> b.x1 + b.x2, y |-> b.y1 + b.y2]

\* C10 witness: a click on the second of two different boxes, whose mesh has
\* another midpoint than its bbox, parsed by the overlay parser with debug on.
C10_Witness ==
    /\ ParsedValidClick
    /\ parser = [variant |-> "overlay", debug |-> TRUE]
    /\ Len(presp.boxes) = 2
    /\ presp.chosen_element_index = 1
    /\ presp.boxes[1].bbox # presp.boxes[2].bbox
    /\ LET t == presp.boxes[2]
       IN  Twice(t.mesh.x) + t.mesh.width # t.bbox.x1 + t.bbox.x2

\* parseResponse has ended on a directive of the given kind.
ParsedKind(kind) == ppc = "parsed" /\ presp.chosen_action.action = kind

IndexValid == presp.chosen_element_index \in 0..(Len(presp.boxes) - 1)

\* The MissingField error of the parser for the given field.
MissingField(field) ==
    CASE field = "input_text" -> MkError("Error", <<"Type action requires input text">>)
      [] field = "scroll_direction" -> MkError("Error", <<"Scroll action requires direction">>)

\* C11: for a type directive with non-empty input_text and a valid
\* chosen_element_index, parseResponse returns method fill with the midpoint
\* of boxes[chosen_element_index].mesh as coordinates (in half pixels:
\* 2 * x + width, 2 * y + height), whatever that box's bbox is, and with
\* input_text as value; bbox (100,100)-(300,130), mesh (100,100,200,30) and
\* "BrowserBase" give fill at (200,115), that is (400,230) in half pixels.
C11_TypeUsesMeshMidpoint ==
    (ParsedKind("type") /\ ~FalsyStr(presp.chosen_action.input_text) /\ IndexValid) =>
        LET t == presp.boxes[presp.chosen_element_index + 1]
            m == t.mesh
        IN  /\ parsed = Returns(ParsedAction("fill", TRUE,
                                             [x |-> 2 * m.x + m.width,
                                              y |-> 2 * m.y + m.height],
                                             TRUE, presp.chosen_action.input_text.s))
            /\ ( /\ t.bbox = [x1 |-> 100, y1 |-> 100, x2 |-> 300, y2 |-> 130]
                 /\ m = [x |-> 100, y |-> 100, width |-> 200, height |-> 30]
                 /\ presp.chosen_action.input_text = Str("BrowserBase") )
                => /\ parsed.action.coordinates = [x |-> 2 * 200, y |-> 2 * 115]
                   /\ parsed.action.value = "BrowserBase"

\* C11 witness: "BrowserBase" typed into the second of two boxes, a box whose
\* bbox has another midpoint than its mesh.
C11_Witness ==
    /\ ParsedKind("type") /\ IndexValid
    /\ presp.chosen_action.input_text = Str("BrowserBase")
    /\ presp.chosen_element_index = 1
    /\ LET t == presp.boxes[2]
       IN  2 * t.mesh.x + t.mesh.width # t.bbox.x1 + t.bbox.x2
    /\ parsed.kind = "return"

\* C12: a type directive whose input_text is null or empty makes
\* parseResponse fail with MissingField("input_text") and return no action,
\* whatever boxes and chosen_element_index are.
C12_EmptyTypeIsRejected ==
    (ParsedKind("type") /\ FalsyStr(presp.chosen_action.input_text))
        => parsed = Throws(MissingField("input_text"))

\* C12 witness: an empty input_text together with an index outside boxes.
C12_Witness ==
    /\ ParsedKind("type")
    /\ presp.chosen_action.input_text = Str("")
    /\ ~IndexValid
    /\ parsed.kind = "throw"

\* C13 (as claimed): a scroll directive fails with
\* MissingField("scroll_direction") exactly when scroll_direction is null;
\* every non-null direction is returned verbatim with method scroll.
C13_ScrollFailsOnlyOnNull ==
    ParsedKind("scroll") =>
        LET dir == presp.chosen_action.scroll_direction
        IN  IF dir.isNull
            THEN parsed = Throws(MissingField("scroll_direction"))
            ELSE parsed = Returns(ParsedAction("scroll", FALSE, NoCoordinates, TRUE, dir.s))

\* C13 (amended): a scroll directive fails with
\* MissingField("scroll_direction") exactly when scroll_direction is null or
\* the empty string; every non-empty direction is returned verbatim with
\* method scroll.
C13_ScrollFailsOnNullOrEmpty ==
    ParsedKind("scroll") =>
        LET dir == presp.chosen_action.scroll_direction
        IN  IF dir.isNull \/ dir.s = ""
            THEN parsed = Throws(MissingField("scroll_direction"))
            ELSE parsed = Returns(ParsedAction("scroll", FALSE, NoCoordinates, TRUE, dir.s))

\* C13 witness: a scroll directive whose direction is the empty string has
\* been rejected.
C13_Witness ==
    /\ ParsedKind("scroll")
    /\ presp.chosen_action.scroll_direction = Str("")
    /\ parsed.kind = "throw"

\* C15: a directive whose action is outside {click, type, scroll} makes
\* parseResponse fail with UnsupportedAction carrying that action value and
\* return no action, whatever boxes, chosen_element_index, input_text and
\* scroll_direction are.
C15_UnsupportedActionIsRejected ==
    (ppc = "parsed" /\ presp.chosen_action.action \notin {"click", "type", "scroll"})
        => parsed = Throws(MkError("Error", <<"Unsupported action: ",
                                              presp.chosen_action.action>>))

\* C15 witness: a hover directive with text and direction given and an index
\* outside boxes, parsed by the overlay parser with debug on.
C15_Witness ==
    /\ ParsedKind("hover")
    /\ ~IndexValid
    /\ presp.chosen_action.input_text = Str("BrowserBase")
    /\ presp.chosen_action.scroll_direction = Str("up")
    /\ parser = [variant |-> "overlay", debug |-> TRUE]
    /\ parsed.kind = "throw"

\* C20 (as claimed): parseResponse is a pure function of its input in both
\* parsers and for either debug flag: it issues no operation on the page,
\* leaves the page at the URL it had, and its result depends on the response
\* alone.
C20_ParseIsPure ==
    ppc = "parsed"
        => /\ page.ops = <<>>
           /\ page.url = NewPage.url
           /\ device = <<>>
           /\ parsed = Dispatch(presp)

\* ================================================================ claims on executeAction

\* The primitives call c has issued so far, in order.
Issued(c) ==
    LET mine == SelectSeq(device, LAMBDA e : e.call = c /\ e.ev = "issue")
    IN  [i \in 1..Len(mine) |-> mine[i].op]

IsPrefix(s, t) == Len(s) <= Len(t) /\ \A i \in 1..Len(s) : s[i] = t[i]

\* Call c was made with an action of the given method.
Called(c, method) == calls[c].pc # "idle" /\ calls[c].action.method = method

\* Call c issues exactly the primitives of ops, in that order: never anything
\* else, and all of them once it has returned.
IssuesExactly(c, ops) ==
    /\ IsPrefix(Issued(c), ops)
    /\ calls[c].pc = "returned" => Issued(c) = ops

\* C14: executeAction on a scroll action emits exactly one wheel event and no
\* other primitive; the horizontal delta is 0 and the vertical delta is -100
\* when the value is the literal "up", +100 for any other value.
C14_ScrollEmitsOneWheel ==
    \A c \in ExecCalls :
        Called(c, "scroll") =>
            LET a == calls[c].action
                deltaY == IF a.hasValue /\ a.value = "up" THEN -100 ELSE 100
            IN  Issued(c) = <<[op |-> "mouse.wheel", x |-> 0, y |-> deltaY,
                               steps |-> 0, ms |-> 0, text |-> ""]>>

\* C14 witness: one scroll with "up" and one with another value have both
\* returned.
C14_Witness ==
    /\ \A c \in ExecCalls : Called(c, "scroll") /\ calls[c].pc = "returned"
    /\ calls[1].action.value = "up"
    /\ calls[2].action.value = "BrowserBase"

\* Primitive op of call c has resolved before the k-th event of the device
\* history.
DoneBefore(c, op, k) ==
    \E j \in 1..(k - 1) :
        device[j].call = c /\ device[j].ev = "done" /\ device[j].op = op

\* C16: executeAction on a fill action with coordinates and a non-empty value
\* issues exactly: pointer move to the coordinates with 10 steps, click at
\* the same coordinates, wait of 1000 ms, keyboard type of the value, in this
\* order; the keystrokes are issued only after the click and the wait have
\* completed.
C16_FillSequence ==
    \A c \in ExecCalls :
        (Called(c, "fill") /\ calls[c].action.hasCoordinates /\ TruthyValue(calls[c].action)) =>
            LET a == calls[c].action
                move == [op |-> "mouse.move", x |-> a.coordinates.x, y |-> a.coordinates.y,
                         steps |-> 10, ms |-> 0, text |-> ""]
                click == [op |-> "mouse.click", x |-> a.coordinates.x, y |-> a.coordinates.y,
                          steps |-> 0, ms |-> 0, text |-> ""]
                wait == [op |-> "waitForTimeout", x |-> 0, y |-> 0,
                         steps |-> 0, ms |-> 1000, text |-> ""]
                type == [op |-> "keyboard.type", x |-> 0, y |-> 0,
                         steps |-> 0, ms |-> 0, text |-> a.value]
            IN  /\ calls[c].pc \in {"awaiting", "returned"}
                    => IssuesExactly(c, <<move, click, wait, type>>)
                /\ calls[c].pc = "threw" => IsPrefix(Issued(c), <<move, click, wait, type>>)
                /\ \A k \in 1..Len(device) :
                    (device[k].call = c /\ device[k].op.op = "keyboard.type")
                        => DoneBefore(c, click, k) /\ DoneBefore(c, wait, k)

\* C16 witness: a fill has returned while the other call issued primitives
\* of its own.
C16_Witness ==
    \E c \in ExecCalls :
        /\ Called(c, "fill") /\ calls[c].pc = "returned"
        /\ Len(Issued(c)) = 4
        /\ \E o \in ExecCalls : o # c /\ Len(Issued(o)) > 0

\* C17: executeAction on a click action with coordinates issues exactly two
\* primitives in order, a pointer move to the coordinates with 10 steps and a
\* click at the same coordinates, and no wait, keyboard or wheel operation.
C17_ClickSequence ==
    \A c \in ExecCalls :
        (Called(c, "click") /\ calls[c].action.hasCoordinates) =>
            LET a == calls[c].action
                move == [op |-> "mouse.move", x |-> a.coordinates.x, y |-> a.coordinates.y,
                         steps |-> 10, ms |-> 0, text |-> ""]
                click == [op |-> "mouse.click", x |-> a.coordinates.x, y |-> a.coordinates.y,
                          steps |-> 0, ms |-> 0, text |-> ""]
            IN  /\ IsPrefix(Issued(c), <<move, click>>)
                /\ calls[c].pc = "returned" => Issued(c) = <<move, click>>

\* C17 witness: a click with coordinates and a value has returned.
C17_Witness ==
    \E c \in ExecCalls :
        /\ Called(c, "click") /\ calls[c].pc = "returned"
        /\ calls[c].action.hasCoordinates /\ calls[c].action.hasValue
        /\ Len(Issued(c)) = 2

\* C18: when a primitive raises during executeAction, the call ends with that
\* very error, issues no further primitive after it and does not issue the
\* failed primitive again.
C18_PrimitiveErrorPropagates ==
    \A c \in ExecCalls :
        /\ \A k \in 1..Len(device) :
            (device[k].call = c /\ device[k].ev = "fail")
                => /\ calls[c].pc = "threw"
                   /\ calls[c].error = device[k].error
                   /\ \A j \in (k + 1)..Len(device) : device[j].call # c
                   /\ Len(SelectSeq(device, LAMBDA e : e.call = c /\ e.ev = "issue"
                                                       /\ e.op = device[k].op)) = 1
        /\ calls[c].pc = "threw"
            => \E k \in 1..Len(device) : device[k].call = c /\ device[k].ev = "fail"

\* C18 witness: the click of a fill failed, and so did the wait of another.
C18_Witness ==
    /\ \A c \in ExecCalls : Called(c, "fill") /\ calls[c].pc = "threw"
    /\ calls[1].done = 1
    /\ calls[2].done = 2

\* C19 (as claimed): the device operations of two executeAction calls on the
\* same page are never interleaved: once the other call has issued or ended
\* an operation, the first one has none left; so no click of another call
\* lies between a fill's click and its keystrokes.
C19_CallsNeverInterleave ==
    \A i \in 1..Len(device) : \A j \in (i + 1)..Len(device) : \A k \in (j + 1)..Len(device) :
        device[i].call = device[k].call => device[j].call = device[i].call

\* ================================================================ claims on the translator as a whole

\* C21: chosen_element_index and boxes are not used for scroll: the outcome
\* of parseResponse on a scroll directive (the scroll action or the
\* MissingField error) is the outcome of the same directive with any other
\* boxes sequence, the empty one included, and any other index, negative and
\* out-of-range ones included.
C21_ScrollIgnoresBoxes ==
    ParsedKind("scroll") =>
        /\ parsed.kind = "throw" => parsed.error = MissingField("scroll_direction")
        /\ \A bs \in BoxSeqs : \A i \in (-1)..MaxBoxes :
            parsed = Dispatch([presp EXCEPT !.boxes = bs, !.chosen_element_index = i])

\* C21 witness: a scroll directive with no boxes and a negative index has
\* been parsed into a scroll action by the overlay parser with debug on.
C21_Witness ==
    /\ ParsedKind("scroll")
    /\ presp.boxes = <<>>
    /\ presp.chosen_element_index = -1
    /\ parser = [variant |-> "overlay", debug |-> TRUE]
    /\ parsed.kind = "return"

\* The two typed errors of the translator.
IsTranslatorError(e) ==
    \/ e = MissingField("input_text")
    \/ e = MissingField("scroll_direction")
    \/ /\ e.name = "Error"
       /\ Len(e.message) = 2
       /\ e.message[1] = "Unsupported action: "

\* C22 (as claimed): for every response that passed validateResponse,
\* parseResponse returns a ParsedAction or fails with MissingField or
\* UnsupportedAction, also for a click or type directive whose
\* chosen_element_index is no valid index of boxes.
C22_OnlyTypedFailures ==
    ppc = "parsed" =>
        \/ parsed.kind = "return"
        \/ parsed.kind = "throw" /\ IsTranslatorError(parsed.error)

\* The primitives call c issued that are keystrokes, as the texts typed.
Keystrokes(c) ==
    LET typed == SelectSeq(Issued(c), LAMBDA o : o.op = "keyboard.type")
    IN  [i \in 1..Len(typed) |-> typed[i].text]

\* C23: the overlay parser with debug enabled behaves as the minimal parser
\* does: whether its debug steps (screenshot, file writes, navigation to the
\* temporary page and back) succeed or fail, parseResponse returns the action
\* or throws the error the minimal parser's switch gives for the response, and
\* executeAction issues the primitives the minimal executeAction issues for
\* that action.
C23_OverlayMatchesMinimal ==
    (ppc = "parsed" /\ parser = [variant |-> "overlay", debug |-> TRUE]) =>
        LET minimal == Dispatch(presp)
        IN  /\ parsed = minimal
            /\ calls[1].pc # "idle"
                => /\ calls[1].action = minimal.action
                   /\ IsPrefix(Issued(1), Plan(minimal.action))
                   /\ calls[1].pc = "returned" => Issued(1) = Plan(minimal.action)

\* C23 witness: the overlay parser with debug on lost its way back (the page
\* stayed on the temporary page), yet parsed a type directive whose action
\* was then executed to the end.
C23_Witness ==
    /\ ppc = "parsed"
    /\ parser = [variant |-> "overlay", debug |-> TRUE]
    /\ page.url = "temporary"
    /\ presp.chosen_action.action = "type"
    /\ calls[1].pc = "returned"
    /\ Len(Issued(1)) = 4

\* C24: every action parseResponse returns has the fields its method needs
\* (click: coordinates; fill: coordinates and a non-empty value; scroll: a
\* non-empty direction), so executeAction on it issues at least one
\* primitive; for a type directive the keystrokes are exactly input_text.
C24_ParsedActionIsExecutable ==
    (ppc = "parsed" /\ parsed.kind = "return") =>
        LET a == parsed.action
        IN  /\ a.method \in {"click", "fill", "scroll"}
            /\ a.method = "click" => a.hasCoordinates
            /\ a.method = "fill" => a.hasCoordinates /\ a.hasValue /\ a.value # ""
            /\ a.method = "scroll" => a.hasValue /\ a.value # ""
            /\ calls[1].pc # "idle" => Len(Issued(1)) >= 1
            /\ (calls[1].pc = "returned" /\ presp.chosen_action.action = "type")
                => Keystrokes(1) = <<presp.chosen_action.input_text.s>>
            /\ (calls[1].pc = "returned" /\ presp.chosen_action.action # "type")
                => Keystrokes(1) = <<>>

\* C24 witness: "BrowserBase" has been typed for a type directive.
C24_Witness ==
    /\ ppc = "parsed"
    /\ presp.chosen_action.action = "type"
    /\ calls[1].pc = "returned"
    /\ Keystrokes(1) = <<"BrowserBase">>

\* C25 (as claimed): a client constructed with maximum retry attempts n, for
\* every n >= 0, uses n as given: reason makes at most n + 1 attempts, and
\* with n = 0 a transient failure of the first attempt goes to the caller
\* after one attempt and no sleep.
C25_MaxRetriesUsedAsGiven ==
    \A d \in Clients :
        opts.maxRetries.present =>
            /\ Len(hist[d]) <= opts.maxRetries.v + 1
            /\ ( /\ opts.maxRetries.v = 0 /\ Len(hist[d]) >= 1
                 /\ hist[d][1].threw # NoError /\ shouldRetry(hist[d][1].threw) )
                => PropagatedAt(d, 1)

====
